---- MODULE Spec2Model ----
(***************************************************************************)
(* commit-gen: the facade (CommitGen), the repository context gatherer     *)
(* (GitRepository) and the message generator (CommitMessageGenerator) of   *)
(* internal/generator, as a state machine.  Strings are TLA+ strings, an   *)
(* error is the chain of its messages, outermost first (fmt.Errorf with %w *)
(* prepends a message to the chain), and nil is the empty chain.           *)
(***************************************************************************)
EXTENDS Integers, Sequences, FiniteSets, TLC

\* The seconds a subprocess query is followed for (it has no deadline of its own).
MaxClock == 1

\* DefaultConfig: Timeout is 10 * time.Second; the clock counts seconds.
TimeoutSeconds == 10

\* How many times the host calls Close on one instance.
MaxCloses == 2

\* The facade instances; each has its own generator and repository handle.
Insts == {1, 2}

----------------------------------------------------------------------------
\* Text constants of the generator.

\* getDefaultSystemPrompt: the system instruction of the full (subject + body) style.
getDefaultSystemPrompt ==
    "You are a git commit message generator. Analyze the provided git diff and recent git log to create a complete commit message with both subject and body.\n"
    \o "\n"
    \o "Format:\n"
    \o "- Subject line: type(scope): brief description (max 50 chars)\n"
    \o "- Blank line\n"
    \o "- Body: Detailed explanation of WHAT, HOW, and WHY (wrap at 72 chars)\n"
    \o "\n"
    \o "Rules for Subject:\n"
    \o "1. Use Conventional Commits format: type(scope): description\n"
    \o "2. Common types: feat, fix, refactor, chore, docs, style, test, perf, ci, build\n"
    \o "3. Keep under 50 characters\n"
    \o "4. Use imperative mood (e.g., \"add feature\" not \"added feature\")\n"
    \o "\n"
    \o "Rules for Body:\n"
    \o "1. Explain WHAT changed (summary of changes)\n"
    \o "2. Explain HOW it was implemented (approach/method)\n"
    \o "3. Explain WHY it was necessary (motivation/context)\n"
    \o "4. Wrap lines at 72 characters\n"
    \o "5. Use bullet points for multiple changes\n"
    \o "6. Reference issues/tickets if relevant\n"
    \o "\n"
    \o "Example:\n"
    \o "feat(auth): add JWT-based user authentication\n"
    \o "\n"
    \o "- Implement JWT token generation and validation\n"
    \o "- Add middleware for protecting authenticated routes\n"
    \o "- Create user login/logout endpoints with secure session handling\n"
    \o "\n"
    \o "This change enables secure user sessions and replaces the previous\n"
    \o "cookie-based authentication which had security vulnerabilities.\n"
    \o "The new system provides better scalability and follows industry\n"
    \o "best practices for API authentication.\n"
    \o "\n"
    \o "Match the style and tone of recent commits in the git log.\n"
    \o "Output only the commit message, nothing else."

\* getShortCommitPrompt: the system instruction of the short (subject only) style.
getShortCommitPrompt ==
    "You are a git commit message generator. Analyze the provided git diff and create a single-line commit message.\n"
    \o "\n"
    \o "Rules:\n"
    \o "1. Use Conventional Commits format: type(scope): description\n"
    \o "2. Common types: feat, fix, refactor, chore, docs, style, test, perf, ci, build\n"
    \o "3. Keep under 50 characters total\n"
    \o "4. Use imperative mood (e.g., \"add feature\" not \"added feature\")\n"
    \o "5. Be concise but descriptive\n"
    \o "6. NO body text, NO explanations, just the subject line\n"
    \o "\n"
    \o "Examples:\n"
    \o "feat(auth): add JWT authentication\n"
    \o "fix(db): resolve connection timeout\n"
    \o "refactor(api): simplify error handling\n"
    \o "docs(readme): update installation steps\n"
    \o "test(user): add login validation tests\n"
    \o "\n"
    \o "Output ONLY the commit subject line, nothing else."

\* getDefaultCommitExamples: the bundled example messages used when there is no history.
getDefaultCommitExamples ==
    "Example commit messages for reference:\n"
    \o "\n"
    \o "feat(auth): add JWT-based user authentication\n"
    \o "\n"
    \o "- Implement JWT token generation and validation\n"
    \o "- Add middleware for protecting authenticated routes\n"
    \o "- Create secure login/logout endpoints\n"
    \o "\n"
    \o "This enables secure user sessions and improves API security\n"
    \o "by replacing cookie-based auth with industry-standard JWT tokens.\n"
    \o "\n"
    \o "fix(db): resolve connection timeout issues\n"
    \o "\n"
    \o "- Increase connection pool size from 10 to 50\n"
    \o "- Add retry logic for failed connections\n"
    \o "- Implement connection health checks\n"
    \o "\n"
    \o "Fixes frequent timeout errors during peak usage periods\n"
    \o "that were causing 500 errors for users.\n"
    \o "\n"
    \o "refactor(api): simplify error handling across endpoints\n"
    \o "\n"
    \o "- Create centralized error handler middleware\n"
    \o "- Standardize error response format\n"
    \o "- Remove duplicate error handling code\n"
    \o "\n"
    \o "Improves code maintainability and provides consistent\n"
    \o "error messages to frontend clients."

----------------------------------------------------------------------------
\* Values.

\* The nil error.
Nil == <<>>

\* fmt.Errorf(msg + ": %w", err): err wrapped under a new outermost message.
Wrap(msg, err) == <<msg>> \o err

\* The root cause of an error: the innermost message of its chain.
Cause(err) == err[Len(err)]

\* unicode.IsSpace on the characters the inputs use.
IsSpace(c) == c \in {" ", "\t", "\n", "\r", "\f"}

RECURSIVE TrimLeft(_)
TrimLeft(s) ==
    IF s = "" THEN ""
    ELSE IF IsSpace(Head(s)) THEN TrimLeft(Tail(s)) ELSE s

RECURSIVE TrimRight(_)
TrimRight(s) ==
    IF s = "" THEN ""
    ELSE IF IsSpace(SubSeq(s, Len(s), Len(s))) THEN TrimRight(SubSeq(s, 1, Len(s) - 1)) ELSE s

\* strings.TrimSpace: s without its leading and trailing white space.
TrimSpace(s) == TrimRight(TrimLeft(s))

\* The default model identifier of DefaultConfig.
DefaultModel == "gemini-2.5-flash-lite-preview-06-17"

\* DefaultConfig(): the default model, a 10 s timeout and no credential yet.
DefaultConfig == [Model |-> DefaultModel, Timeout |-> TimeoutSeconds, APIKey |-> ""]

----------------------------------------------------------------------------
\* What the collaborators can answer.

\* Staged-diff texts `git --no-pager diff --staged` can print.
DiffTexts == {"", " \n", "+added line"}

\* Log texts `git log` can print.
LogTexts == {"", "\n", "abc123 initial commit\n"}

\* Why a subprocess can fail: the tool is missing, or it exits non-zero.
ExecCauses == {"exec: \"git\": executable file not found in $PATH", "exit status 128"}

\* cmd.Output() of a subprocess: its standard output and its error.
Outcomes(texts) ==
    {[out |-> t, err |-> Nil] : t \in texts} \cup {[out |-> "", err |-> <<c>>] : c \in ExecCauses}

\* Texts the endpoint can return, and the errors of a call that fails before its deadline.
ReplyTexts == {"", "feat: add line\n"}
CallCauses == {"Error 503: UNAVAILABLE", "dial tcp: connection refused"}

\* ctx.Err() once the deadline of context.WithTimeout has passed.
DeadlineCause == "context deadline exceeded"

\* Inputs of GenerateFromDiff.
GivenDiffs == {"", "+added line"}
GivenHistories == {"", "\n", "abc123 initial commit"}

\* Options given to New, and the GOOGLE_API_KEY of the environment.
OptKeys == {"", "opt-key"}
EnvKeys == {"", "env-key"}
OptModels == {"", "gemini-1.5-pro"}

----------------------------------------------------------------------------
\* Pure functions of the repository handle and of the generator.

\* GetStagedDiff with the cause left out of its error (no %w).
GetStagedDiffDropsCause(o) ==
    IF o.err # Nil
    THEN [val |-> "", err |-> <<"failed to get staged diff">>]
    ELSE [val |-> o.out, err |-> Nil]

\* GitRepository.GetStagedDiff on the outcome o of its subprocess.
GetStagedDiff(o) ==
    IF o.err # Nil
    THEN [val |-> "", err |-> Wrap("failed to get staged diff", o.err)]
    ELSE [val |-> o.out, err |-> Nil]

\* A HasStagedChanges that tests the raw output.
HasStagedChangesNoTrim(o) ==
    LET r == GetStagedDiff(o)
    IN  IF r.err # Nil
        THEN [val |-> FALSE, err |-> r.err]
        ELSE [val |-> r.val # "", err |-> Nil]

\* GitRepository.HasStagedChanges on the outcome o of its staged-diff query.
HasStagedChanges(o) ==
    LET r == GetStagedDiff(o)
    IN  IF r.err # Nil
        THEN [val |-> FALSE, err |-> r.err]
        ELSE [val |-> TrimSpace(r.val) # "", err |-> Nil]

\* A GetDetailedCommitHistory that takes an empty log for a history.
GetDetailedCommitHistoryEmptyOk(o) ==
    IF o.err # Nil
    THEN [val |-> "", err |-> Wrap("failed to get detailed commit history", o.err)]
    ELSE [val |-> o.out, err |-> Nil]

\* GitRepository.GetDetailedCommitHistory on the outcome o of its `git log` query.
GetDetailedCommitHistory(o) ==
    IF o.err # Nil
    THEN [val |-> "", err |-> Wrap("failed to get detailed commit history", o.err)]
    ELSE IF TrimSpace(o.out) = ""
    THEN [val |-> "", err |-> <<"no git history found">>]
    ELSE [val |-> o.out, err |-> Nil]

\* GitRepository.GetRecentCommits on the outcome o of its `git log --oneline` query.
GetRecentCommits(o) ==
    IF o.err # Nil
    THEN [val |-> "", err |-> Wrap("failed to get recent commits", o.err)]
    ELSE IF TrimSpace(o.out) = ""
    THEN [val |-> "", err |-> <<"no git history found">>]
    ELSE [val |-> o.out, err |-> Nil]

\* The GitInfo struct.
GitInfo(diff, commits, hasHistory) ==
    [StagedDiff |-> diff, RecentCommits |-> commits, HasHistory |-> hasHistory]

\* A GenerateFromDiff that takes a blank history for no history, as the history
\* queries do.
FromDiffInfoTrimmed(d, history) == GitInfo(d, history, TrimSpace(history) # "")

\* GenerateFromDiff with its two arguments taken in the wrong order.
FromDiffInfoSwapped(d, history) == GitInfo(history, d, d # "")

\* GenerateFromDiff marking every history as present.
FromDiffInfoAlwaysHistory(d, history) == GitInfo(d, history, TRUE)

\* The GitInfo GenerateFromDiff(d, history) builds.
FromDiffInfo(d, history) == GitInfo(d, history, history # "")

\* buildPrompt with no bundled examples: the history slot always holds RecentCommits.
buildPromptNoExamples(info) ==
    "Recent git log:\n" \o info.RecentCommits \o "\n\nGit diff:\n" \o info.StagedDiff \o "\n"

\* buildPrompt deciding on the HasHistory flag alone.
buildPromptFlagOnly(info) ==
    IF info.HasHistory
    THEN "Recent git log:\n" \o info.RecentCommits \o "\n\nGit diff:\n" \o info.StagedDiff \o "\n"
    ELSE "Recent git log:\n" \o getDefaultCommitExamples \o "\n\nGit diff:\n" \o info.StagedDiff \o "\n"

\* buildPrompt: the user message for a GitInfo.
buildPrompt(info) ==
    IF info.HasHistory /\ info.RecentCommits # ""
    THEN "Recent git log:\n" \o info.RecentCommits \o "\n\nGit diff:\n" \o info.StagedDiff \o "\n"
    ELSE "Recent git log:\n" \o getDefaultCommitExamples \o "\n\nGit diff:\n" \o info.StagedDiff \o "\n"

\* A selection that gives every style the full-format instruction.
SelectSystemPromptAlwaysFull(isShortCommit) == getDefaultSystemPrompt

\* The system instruction NewCommitMessageGenerator selects for a style.
SelectSystemPrompt(isShortCommit) ==
    IF isShortCommit THEN getShortCommitPrompt ELSE getDefaultSystemPrompt

\* A context with no deadline (context.Background() alone).
WithoutTimeout(now, timeout) == <<>>

\* context.WithTimeout(context.Background(), timeout) at time now: the deadline.
WithTimeout(now, timeout) == <<now + timeout>>

\* The request GenerateCommitMessage hands to client.Models.GenerateContent.
Request(g, info) ==
    [model |-> g.config.Model,
     contents |-> <<buildPrompt(info)>>,
     SystemInstruction |-> <<g.systemPrompt>>,
     IncludeThoughts |-> FALSE,
     ThinkingBudget |-> 0]

----------------------------------------------------------------------------
\* State, per facade instance.

VARIABLES
    pc,        \* where the instance is: "unborn", "failed", "idle", or the call it is blocked in
    op,        \* the facade operation in progress, or the last one that returned
    facade,    \* <<>> before New succeeds, then <<the CommitGen>>
    calls,     \* the subprocess and endpoint calls of the operation, in issue order
    clock,     \* seconds since the operation was called
    deadline,  \* <<>>, or <<the clock value at which the call's context expires>>
    called,    \* <<>>, or <<the clock value at which GenerateCommitMessage was called>>
    expired,   \* whether a deadline of an earlier call on this generator has passed
    closes,    \* how many times Close was called on the instance
    wrapper,   \* "none", or the convenience wrapper that owns the instance
    args,      \* the arguments the operation was called with
    diff,      \* the local diff of GetCommitContext
    gitInfo,   \* <<>>, or <<the GitInfo handed to GenerateCommitMessage>>
    req,       \* <<>>, or <<the request sent to the endpoint>>
    ret        \* the value and error the operation returned

vars == <<pc, op, facade, calls, clock, deadline, called, expired, closes, wrapper,
          args, diff, gitInfo, req, ret, closes>>

\* The error of a call that has not completed yet.
Pending == <<"pending">>

DiffCmd == "git --no-pager diff --staged"
\* The commands of GetDetailedCommitHistory(count) and GetRecentCommits(count).
LogCmdFor(count) == "git log -" \o ToString(count)
OnelineCmdFor(count) == "git log -" \o ToString(count) \o " --oneline"

\* The count GetCommitContext asks for, and its two commands.
HistoryCount == 10
LogCmd == LogCmdFor(HistoryCount)
OnelineCmd == OnelineCmdFor(HistoryCount)

\* Counts a host asks the history functions for.
Counts == {1, 10}
RemoteCmd == "Models.GenerateContent"

NoRet == [val |-> "", flag |-> FALSE, info |-> <<>>, err |-> Nil]

\* A returned (string, error).
Ret(val, err) == [NoRet EXCEPT !.val = val, !.err = err]

\* What operation o leaves in ret when it returns (r.val, r.err): HasStagedChanges
\* returns a bool, GetGitInfo a *GitInfo, every other operation a string.
Returned(o, r) ==
    IF o = "HasStagedChanges" THEN [NoRet EXCEPT !.flag = r.val, !.err = r.err]
    ELSE IF o = "GetGitInfo" THEN [NoRet EXCEPT !.info = r.val, !.err = r.err]
    ELSE Ret(r.val, r.err)

Init ==
    /\ pc = [i \in Insts |-> "unborn"]
    /\ op = [i \in Insts |-> "none"]
    /\ facade = [i \in Insts |-> <<>>]
    /\ calls = [i \in Insts |-> <<>>]
    /\ clock = [i \in Insts |-> 0]
    /\ deadline = [i \in Insts |-> <<>>]
    /\ called = [i \in Insts |-> <<>>]
    /\ expired = [i \in Insts |-> FALSE]
    /\ closes = [i \in Insts |-> 0]
    /\ wrapper = [i \in Insts |-> "none"]
    /\ args = [i \in Insts |-> <<>>]
    /\ diff = [i \in Insts |-> ""]
    /\ gitInfo = [i \in Insts |-> <<>>]
    /\ req = [i \in Insts |-> <<>>]
    /\ ret = [i \in Insts |-> NoRet]

\* The pending call completes with outcome o.
Complete(cs, o) ==
    [cs EXCEPT ![Len(cs)] = [cmd |-> @.cmd, out |-> o.out, err |-> o.err]]

\* A wrapper whose Close runs only when Generate succeeded.
ReturnCloseOnSuccess(i, r) ==
    /\ pc' = [pc EXCEPT ![i] = IF wrapper[i] = "none" THEN "idle" ELSE "done"]
    /\ ret' = [ret EXCEPT ![i] = Returned(op[i], r)]
    /\ closes' = [closes EXCEPT ![i] =
           IF wrapper[i] = "none" \/ r.err # Nil THEN @ ELSE @ + 1]

\* The operation returns r to its caller.  In a convenience wrapper the caller is the
\* wrapper, whose deferred commitGen.Close() runs before it returns r in its turn.
Return(i, r) ==
    /\ pc' = [pc EXCEPT ![i] = IF wrapper[i] = "none" THEN "idle" ELSE "done"]
    /\ ret' = [ret EXCEPT ![i] = Returned(op[i], r)]
    /\ closes' = [closes EXCEPT ![i] = IF wrapper[i] = "none" THEN @ ELSE @ + 1]

\* Operation o is called on an idle instance with arguments a.
Enter(i, o, a) ==
    /\ pc[i] = "idle"
    /\ op' = [op EXCEPT ![i] = o]
    /\ args' = [args EXCEPT ![i] = a]
    /\ clock' = [clock EXCEPT ![i] = 0]
    /\ diff' = [diff EXCEPT ![i] = ""]
    /\ ret' = [ret EXCEPT ![i] = NoRet]

\* The client constructor NewCommitMessageGenerator calls.
NewClientCmd == "genai.NewClient"

\* A construction that never finds the credential missing.
NoAPIKeyNever(apiKey) == FALSE

\* The test `apiKey == ""` of New and of NewCommitMessageGenerator.
NoAPIKey(apiKey) == apiKey = ""

\* NewCommitMessageGenerator(config, isShortCommit), with genai.NewClient answering
\* clientErr: the generator (or none), the error, and the client constructions made.
NewCommitMessageGenerator(config, isShortCommit, clientErr) ==
    IF NoAPIKey(config.APIKey)
    THEN [val |-> <<>>, err |-> <<"API key is required">>, calls |-> <<>>]
    ELSE LET made == <<[cmd |-> NewClientCmd, out |-> "", err |-> clientErr]>>
         IN  IF clientErr # Nil
             THEN [val |-> <<>>, err |-> Wrap("failed to create AI client", clientErr),
                   calls |-> made]
             ELSE [val |-> <<[client |-> TRUE,
                              config |-> config,
                              systemPrompt |-> SelectSystemPrompt(isShortCommit),
                              isShortCommit |-> isShortCommit]>>,
                   err |-> Nil, calls |-> made]

\* New(opts) in an environment whose GOOGLE_API_KEY is envKey: the facade (or none),
\* the error, and the client constructions made.
NewCommitGen(optKey, envKey, model, isShortCommit, clientErr) ==
    LET apiKey == IF optKey # "" THEN optKey ELSE envKey
        config == [DefaultConfig EXCEPT !.APIKey = apiKey,
                                        !.Model = IF model # "" THEN model ELSE @]
        g == NewCommitMessageGenerator(config, isShortCommit, clientErr)
    IN  IF NoAPIKey(apiKey)
        THEN [val |-> <<>>, calls |-> <<>>,
              err |-> <<"API key not provided in options or GOOGLE_API_KEY environment variable">>]
        ELSE IF g.err # Nil
        THEN [val |-> <<>>, calls |-> g.calls,
              err |-> Wrap("failed to create generator", g.err)]
        ELSE [val |-> <<[generator |-> g.val[1], repo |-> [workingDir |-> ""]]>>,
              calls |-> g.calls, err |-> Nil]

\* The client constructor's answers.
ClientErrs == {Nil, <<"client init failed">>}

\* New(opts), called by the host: args keeps the options and the environment's key.
New(i) ==
    /\ pc[i] = "unborn"
    /\ \E optKey \in OptKeys, envKey \in EnvKeys, model \in OptModels,
          isShortCommit \in BOOLEAN, clientErr \in ClientErrs :
        LET r == NewCommitGen(optKey, envKey, model, isShortCommit, clientErr)
        IN  /\ pc' = [pc EXCEPT ![i] = IF r.err # Nil THEN "failed" ELSE "idle"]
            /\ ret' = [ret EXCEPT ![i] = Ret("", r.err)]
            /\ facade' = [facade EXCEPT ![i] = r.val]
            /\ calls' = [calls EXCEPT ![i] = r.calls]
            /\ args' = [args EXCEPT ![i] = <<optKey, envKey, model, isShortCommit>>]
    /\ op' = [op EXCEPT ![i] = "New"]
    /\ UNCHANGED <<clock, deadline, called, expired, closes, wrapper, diff, gitInfo, req>>

\* A GenerateCommitMessage that keeps its context in a package-level variable, the
\* one context serving every generator of the host.
GenerateCommitMessageSharedContext(i, info, cs, now) ==
    LET g == facade[i][1].generator
    IN  /\ deadline' = [j \in Insts |-> WithTimeout(now, g.config.Timeout)]
        /\ called' = [called EXCEPT ![i] = <<now>>]
        /\ gitInfo' = [gitInfo EXCEPT ![i] = <<info>>]
        /\ req' = [req EXCEPT ![i] = <<Request(g, info)>>]
        /\ calls' = [calls EXCEPT ![i] =
               Append(cs, [cmd |-> RemoteCmd, out |-> "", err |-> Pending])]
        /\ pc' = [pc EXCEPT ![i] = "GenerateContent"]

\* A GenerateCommitMessage whose context outlives the call: a later call gets what
\* the earlier one left of its time.
GenerateCommitMessageSessionDeadline(i, info, cs, now) ==
    LET g == facade[i][1].generator
    IN  /\ deadline' = [deadline EXCEPT ![i] =
               IF @ = <<>> THEN WithTimeout(now, g.config.Timeout)
                           ELSE <<now + (@[1] - clock[i])>>]
        /\ called' = [called EXCEPT ![i] = <<now>>]
        /\ gitInfo' = [gitInfo EXCEPT ![i] = <<info>>]
        /\ req' = [req EXCEPT ![i] = <<Request(g, info)>>]
        /\ calls' = [calls EXCEPT ![i] =
               Append(cs, [cmd |-> RemoteCmd, out |-> "", err |-> Pending])]
        /\ pc' = [pc EXCEPT ![i] = "GenerateContent"]

\* CommitMessageGenerator.GenerateCommitMessage(info), called at time now, up to its
\* blocking endpoint call: the deadline is set, the prompt built and the one request sent.
GenerateCommitMessage(i, info, cs, now) ==
    LET g == facade[i][1].generator
    IN  /\ deadline' = [deadline EXCEPT ![i] = WithTimeout(now, g.config.Timeout)]
        /\ called' = [called EXCEPT ![i] = <<now>>]
        /\ gitInfo' = [gitInfo EXCEPT ![i] = <<info>>]
        /\ req' = [req EXCEPT ![i] = <<Request(g, info)>>]
        /\ calls' = [calls EXCEPT ![i] = Append(cs, [cmd |-> RemoteCmd, out |-> "", err |-> Pending])]
        /\ pc' = [pc EXCEPT ![i] = "GenerateContent"]

\* Generate() is called: GetCommitContext starts with HasStagedChanges, which runs
\* the first staged-diff query.
Generate(i) ==
    /\ Enter(i, "Generate", <<>>)
    /\ pc' = [pc EXCEPT ![i] = "HasStagedChanges"]
    /\ calls' = [calls EXCEPT ![i] = <<[cmd |-> DiffCmd, out |-> "", err |-> Pending]>>]
    /\ gitInfo' = [gitInfo EXCEPT ![i] = <<>>]
    /\ req' = [req EXCEPT ![i] = <<>>]
    /\ deadline' = [deadline EXCEPT ![i] = <<>>]
    /\ called' = [called EXCEPT ![i] = <<>>]
    /\ UNCHANGED <<facade, expired, closes, wrapper>>

\* GetGitInfo() is called: GetCommitContext alone.
GetGitInfo(i) ==
    /\ Enter(i, "GetGitInfo", <<>>)
    /\ pc' = [pc EXCEPT ![i] = "HasStagedChanges"]
    /\ calls' = [calls EXCEPT ![i] = <<[cmd |-> DiffCmd, out |-> "", err |-> Pending]>>]
    /\ gitInfo' = [gitInfo EXCEPT ![i] = <<>>]
    /\ req' = [req EXCEPT ![i] = <<>>]
    /\ deadline' = [deadline EXCEPT ![i] = <<>>]
    /\ called' = [called EXCEPT ![i] = <<>>]
    /\ UNCHANGED <<facade, expired, closes, wrapper>>

\* The facade's HasStagedChanges() is called.
FacadeHasStagedChanges(i) ==
    /\ Enter(i, "HasStagedChanges", <<>>)
    /\ pc' = [pc EXCEPT ![i] = "HasStagedChanges"]
    /\ calls' = [calls EXCEPT ![i] = <<[cmd |-> DiffCmd, out |-> "", err |-> Pending]>>]
    /\ gitInfo' = [gitInfo EXCEPT ![i] = <<>>]
    /\ req' = [req EXCEPT ![i] = <<>>]
    /\ deadline' = [deadline EXCEPT ![i] = <<>>]
    /\ called' = [called EXCEPT ![i] = <<>>]
    /\ UNCHANGED <<facade, expired, closes, wrapper>>

\* GitRepository.GetDetailedCommitHistory(count) and GetRecentCommits(count), called
\* by a host on the repository handler, up to the `git log` query.
RepoHistory(i, o, cmd) ==
    /\ \E count \in Counts :
        /\ Enter(i, o, <<count>>)
        /\ calls' = [calls EXCEPT ![i] =
               <<[cmd |-> IF cmd = "detailed" THEN LogCmdFor(count) ELSE OnelineCmdFor(count),
                  out |-> "", err |-> Pending]>>]
    /\ pc' = [pc EXCEPT ![i] = o]
    /\ gitInfo' = [gitInfo EXCEPT ![i] = <<>>]
    /\ req' = [req EXCEPT ![i] = <<>>]
    /\ deadline' = [deadline EXCEPT ![i] = <<>>]
    /\ called' = [called EXCEPT ![i] = <<>>]
    /\ UNCHANGED <<facade, expired, closes, wrapper>>

RepoGetDetailedCommitHistory(i) == RepoHistory(i, "GetDetailedCommitHistory", "detailed")

RepoGetRecentCommits(i) == RepoHistory(i, "GetRecentCommits", "oneline")

\* GenerateFromDiff(diff, history): the GitInfo is built from the arguments and
\* handed to the generator.
GenerateFromDiff(i) ==
    /\ \E d \in GivenDiffs, history \in GivenHistories :
        /\ Enter(i, "GenerateFromDiff", <<d, history>>)
        /\ GenerateCommitMessage(i, FromDiffInfo(d, history), <<>>, 0)
    /\ UNCHANGED <<facade, expired, closes, wrapper>>

\* GenerateCommitMessage(gitInfo) is called on the generator itself, with any GitInfo.
DirectGenerateCommitMessage(i) ==
    /\ \E d \in GivenDiffs, history \in GivenHistories, hasHistory \in BOOLEAN :
        /\ Enter(i, "GenerateCommitMessage", <<d, history, hasHistory>>)
        /\ GenerateCommitMessage(i, GitInfo(d, history, hasHistory), <<>>, 0)
    /\ UNCHANGED <<facade, expired, closes, wrapper>>

\* GetCommitContext without its `if !hasStagedChanges` return.
StagedCheckSkipsEmpty(r) ==
    IF r.err # Nil THEN Wrap("failed to check for staged changes", r.err) ELSE Nil

\* GetCommitContext after HasStagedChanges returned r: the error it fails with, or Nil
\* when it goes on to fetch the diff.
StagedCheck(r) ==
    IF r.err # Nil THEN Wrap("failed to check for staged changes", r.err)
    ELSE IF ~r.val THEN <<"no staged changes found">>
    ELSE Nil

\* GetCommitContext after GetDetailedCommitHistory returned r: whether the one-line
\* log is tried.
FallsBack(r) == r.err # Nil

\* GetCommitContext's GitInfo when the detailed log succeeded with r.
DetailedInfo(d, r) == GitInfo(d, r.val, TRUE)

\* The fallback without `hasHistory = false`.
FallbackInfoKeepsFlag(d, r) == GitInfo(d, r.val, TRUE)

\* GetCommitContext's GitInfo after the fallback GetRecentCommits returned r.
FallbackInfo(d, r) ==
    IF r.err # Nil THEN GitInfo(d, "", FALSE) ELSE GitInfo(d, r.val, TRUE)

\* GetCommitContext fails with err: Generate returns ("", err), GetGitInfo (nil, err).
ContextFailed(i, err, cs) ==
    /\ Return(i, [val |-> IF op[i] = "Generate" THEN "" ELSE <<>>, err |-> err])
    /\ calls' = [calls EXCEPT ![i] = cs]
    /\ UNCHANGED <<op, facade, wrapper, expired, clock, deadline, called, args, diff, gitInfo, req>>

\* GetCommitContext returns info: Generate hands it to the generator, GetGitInfo
\* returns it.
ContextReady(i, info, cs) ==
    IF op[i] = "Generate"
    THEN /\ GenerateCommitMessage(i, info, cs, clock[i])
         /\ UNCHANGED <<op, facade, wrapper, expired, clock, args, diff, ret, closes>>
    ELSE /\ Return(i, [val |-> <<info>>, err |-> Nil])
         /\ calls' = [calls EXCEPT ![i] = cs]
         /\ UNCHANGED <<op, facade, wrapper, expired, clock, deadline, called, args, diff, gitInfo, req>>

\* The staged-diff query of HasStagedChanges completes.
HasStagedChangesReturn(i) ==
    /\ pc[i] = "HasStagedChanges"
    /\ \E o \in Outcomes(DiffTexts) :
        LET r == HasStagedChanges(o)
            cs == Complete(calls[i], o)
        IN  IF op[i] = "HasStagedChanges"
            THEN /\ Return(i, r)
                 /\ calls' = [calls EXCEPT ![i] = cs]
                 /\ UNCHANGED <<op, facade, wrapper, expired, clock, deadline, called, args, diff, gitInfo, req>>
            ELSE IF StagedCheck(r) # Nil
            THEN ContextFailed(i, StagedCheck(r), cs)
            ELSE /\ pc' = [pc EXCEPT ![i] = "GetStagedDiff"]
                 /\ calls' = [calls EXCEPT ![i] =
                        Append(cs, [cmd |-> DiffCmd, out |-> "", err |-> Pending])]
                 /\ UNCHANGED <<op, facade, wrapper, expired, clock, deadline, called, args, diff, gitInfo, req, ret, closes>>

\* The staged-diff query of GetCommitContext's own GetStagedDiff completes.
GetStagedDiffReturn(i) ==
    /\ pc[i] = "GetStagedDiff"
    /\ \E o \in Outcomes(DiffTexts) :
        LET r == GetStagedDiff(o)
            cs == Complete(calls[i], o)
        IN  IF r.err # Nil
            THEN ContextFailed(i, r.err, cs)
            ELSE /\ pc' = [pc EXCEPT ![i] = "GetDetailedCommitHistory"]
                 /\ diff' = [diff EXCEPT ![i] = r.val]
                 /\ calls' = [calls EXCEPT ![i] =
                        Append(cs, [cmd |-> LogCmd, out |-> "", err |-> Pending])]
                 /\ UNCHANGED <<op, facade, wrapper, expired, clock, deadline, called, args, gitInfo, req, ret, closes>>

\* The `git log` query of GetDetailedCommitHistory completes.
GetDetailedCommitHistoryReturn(i) ==
    /\ pc[i] = "GetDetailedCommitHistory"
    /\ \E o \in Outcomes(LogTexts) :
        LET r == GetDetailedCommitHistory(o)
            cs == Complete(calls[i], o)
        IN  IF op[i] = "GetDetailedCommitHistory"
            THEN /\ Return(i, r)
                 /\ calls' = [calls EXCEPT ![i] = cs]
                 /\ UNCHANGED <<op, facade, wrapper, expired, clock, deadline, called, args, diff, gitInfo, req>>
            ELSE IF FallsBack(r)
            THEN /\ pc' = [pc EXCEPT ![i] = "GetRecentCommits"]
                 /\ calls' = [calls EXCEPT ![i] =
                        Append(cs, [cmd |-> OnelineCmd, out |-> "", err |-> Pending])]
                 /\ UNCHANGED <<op, facade, wrapper, expired, clock, deadline, called, args, diff, gitInfo, req, ret, closes>>
            ELSE ContextReady(i, DetailedInfo(diff[i], r), cs)

\* The `git log --oneline` query of GetRecentCommits completes.
GetRecentCommitsReturn(i) ==
    /\ pc[i] = "GetRecentCommits"
    /\ \E o \in Outcomes(LogTexts) :
        IF op[i] = "GetRecentCommits"
        THEN /\ Return(i, GetRecentCommits(o))
             /\ calls' = [calls EXCEPT ![i] = Complete(calls[i], o)]
             /\ UNCHANGED <<op, facade, wrapper, expired, clock, deadline, called, args, diff, gitInfo, req>>
        ELSE ContextReady(i, FallbackInfo(diff[i], GetRecentCommits(o)), Complete(calls[i], o))

\* A GenerateCommitMessage that tidies the text before returning it.
GenerateResultTrimmed(o) ==
    IF o.err # Nil
    THEN [val |-> "", err |-> Wrap("failed to generate commit message", o.err)]
    ELSE [val |-> TrimSpace(o.out), err |-> Nil]

\* What GenerateCommitMessage returns for the endpoint's answer o.
GenerateResult(o) ==
    IF o.err # Nil
    THEN [val |-> "", err |-> Wrap("failed to generate commit message", o.err)]
    ELSE [val |-> o.out, err |-> Nil]

\* GenerateCommitMessage calling the endpoint a second time when the first call fails.
GenerateContentReturnRetry(i) ==
    /\ pc[i] = "GenerateContent"
    /\ deadline[i] = <<>> \/ clock[i] < deadline[i][1]
    /\ \E o \in {[out |-> t, err |-> Nil] : t \in ReplyTexts}
                \cup {[out |-> "", err |-> <<c>>] : c \in CallCauses} :
        IF o.err # Nil /\ Len(calls[i]) < 6
        THEN /\ calls' = [calls EXCEPT ![i] =
                    Append(Complete(@, o), [cmd |-> RemoteCmd, out |-> "", err |-> Pending])]
             /\ UNCHANGED <<pc, ret, closes>>
        ELSE /\ Return(i, GenerateResult(o))
             /\ calls' = [calls EXCEPT ![i] = Complete(@, o)]
    /\ UNCHANGED <<op, facade, wrapper, expired, clock, deadline, called, args, diff, gitInfo, req>>

\* The endpoint answers before the deadline, with a text or with an error;
\* GenerateCommitMessage returns and so does the facade operation.
GenerateContentReturn(i) ==
    /\ pc[i] = "GenerateContent"
    /\ deadline[i] = <<>> \/ clock[i] < deadline[i][1]
    /\ \E o \in {[out |-> t, err |-> Nil] : t \in ReplyTexts}
                \cup {[out |-> "", err |-> <<c>>] : c \in CallCauses} :
        /\ Return(i, GenerateResult(o))
        /\ calls' = [calls EXCEPT ![i] = Complete(@, o)]
    /\ UNCHANGED <<op, facade, wrapper, expired, clock, deadline, called, args, diff, gitInfo, req>>

\* The deadline of the call's context passes with no answer: GenerateContent
\* returns the context's error.
DeadlineExceeded(i) ==
    /\ pc[i] = "GenerateContent"
    /\ deadline[i] # <<>>
    /\ clock[i] >= deadline[i][1]
    /\ LET o == [out |-> "", err |-> <<DeadlineCause>>]
       IN  /\ Return(i, GenerateResult(o))
           /\ calls' = [calls EXCEPT ![i] = Complete(@, o)]
    /\ expired' = [expired EXCEPT ![i] = TRUE]
    /\ UNCHANGED <<op, facade, wrapper, clock, deadline, called, args, diff, gitInfo, req>>

\* A Close that releases the client and refuses to release it again.
CloseGeneratorOnce(g) ==
    IF g.client
    THEN [val |-> [g EXCEPT !.client = FALSE], err |-> Nil]
    ELSE [val |-> g, err |-> <<"client already closed">>]

\* CommitMessageGenerator.Close(): nothing is cleaned up, nil is returned.
CloseGenerator(g) == [val |-> g, err |-> Nil]

\* CommitGen.Close(), called by the host: the generator's Close and its error.
Close(i) ==
    /\ pc[i] = "idle"
    /\ wrapper[i] = "none"
    /\ closes[i] < MaxCloses
    /\ LET r == CloseGenerator(facade[i][1].generator)
       IN  /\ facade' = [facade EXCEPT ![i] = <<[@[1] EXCEPT !.generator = r.val]>>]
           /\ ret' = [ret EXCEPT ![i] = Ret("", r.err)]
    /\ op' = [op EXCEPT ![i] = "Close"]
    /\ closes' = [closes EXCEPT ![i] = @ + 1]
    /\ UNCHANGED <<pc, calls, clock, deadline, called, expired, wrapper, args, diff,
                   gitInfo, req>>

\* A convenience wrapper w called with the options (optKey, model, isShortCommit):
\* New, then on an error the return of ("", err), else `defer commitGen.Close()` and
\* Generate up to its first subprocess query.
Quick(i, w, optKey, model, isShortCommit) ==
    /\ pc[i] = "unborn"
    /\ \E envKey \in EnvKeys, clientErr \in ClientErrs :
        LET r == NewCommitGen(optKey, envKey, model, isShortCommit, clientErr)
        IN  /\ facade' = [facade EXCEPT ![i] = r.val]
            /\ args' = [args EXCEPT ![i] = <<optKey, envKey, model, isShortCommit>>]
            /\ ret' = [ret EXCEPT ![i] = Ret("", r.err)]
            /\ IF r.err # Nil
               THEN /\ pc' = [pc EXCEPT ![i] = "failed"]
                    /\ op' = [op EXCEPT ![i] = "New"]
                    /\ calls' = [calls EXCEPT ![i] = r.calls]
               ELSE /\ pc' = [pc EXCEPT ![i] = "HasStagedChanges"]
                    /\ op' = [op EXCEPT ![i] = "Generate"]
                    /\ calls' = [calls EXCEPT ![i] =
                           <<[cmd |-> DiffCmd, out |-> "", err |-> Pending]>>]
    /\ wrapper' = [wrapper EXCEPT ![i] = w]
    /\ UNCHANGED <<clock, deadline, called, expired, closes, diff, gitInfo, req>>

\* QuickGenerate(apiKey).
QuickGenerate(i) ==
    \E apiKey \in OptKeys : Quick(i, "QuickGenerate", apiKey, "", FALSE)

\* QuickGenerateShort(apiKey).
QuickGenerateShort(i) ==
    \E apiKey \in OptKeys : Quick(i, "QuickGenerateShort", apiKey, "", TRUE)

\* QuickGenerateWithOptions(opts).
QuickGenerateWithOptions(i) ==
    \E optKey \in OptKeys, model \in OptModels, isShortCommit \in BOOLEAN :
        Quick(i, "QuickGenerateWithOptions", optKey, model, isShortCommit)


\* A second passes while the instance is blocked in a call.
Tick(i) ==
    /\ pc[i] \in {"HasStagedChanges", "GetStagedDiff", "GetDetailedCommitHistory",
                  "GetRecentCommits", "GenerateContent"}
    /\ clock[i] < (IF deadline[i] = <<>> THEN MaxClock ELSE deadline[i][1])
    /\ clock' = [clock EXCEPT ![i] = @ + 1]
    /\ UNCHANGED <<pc, op, facade, calls, deadline, called, expired, wrapper, args, diff, gitInfo, req, ret, closes>>

Step(i) ==
    \/ New(i)
    \/ RepoGetDetailedCommitHistory(i)
    \/ RepoGetRecentCommits(i)
    \/ Generate(i)
    \/ GetGitInfo(i)
    \/ FacadeHasStagedChanges(i)
    \/ GenerateFromDiff(i)
    \/ DirectGenerateCommitMessage(i)
    \/ HasStagedChangesReturn(i)
    \/ GetStagedDiffReturn(i)
    \/ GetDetailedCommitHistoryReturn(i)
    \/ GetRecentCommitsReturn(i)
    \/ GenerateContentReturn(i)
    \/ DeadlineExceeded(i)
    \/ Tick(i)

\* One facade instance in use.
Next == Step(1)

Spec == Init /\ [][Next]_vars

\* Time passes while a call blocks, and the timer of a context that has a deadline
\* fires once the deadline has passed; nothing obliges a collaborator to answer.
FairSpec == Spec /\ WF_vars(Tick(1)) /\ WF_vars(DeadlineExceeded(1))

\* The life of one instance from construction to release: built by the host, used
\* for Generate and closed by it, or owned by a convenience wrapper.
LifeStep(i) ==
    \/ New(i)
    \/ Close(i)
    \/ QuickGenerate(i)
    \/ QuickGenerateShort(i)
    \/ QuickGenerateWithOptions(i)
    \/ Generate(i)
    \/ HasStagedChangesReturn(i)
    \/ GetStagedDiffReturn(i)
    \/ GetDetailedCommitHistoryReturn(i)
    \/ GetRecentCommitsReturn(i)
    \/ GenerateContentReturn(i)
    \/ DeadlineExceeded(i)
    \/ Tick(i)

LifeNext == LifeStep(1)

LifeSpec == Init /\ [][LifeNext]_vars

\* Two independent generator/repository pairs in one host, built with
\* NewCommitMessageGenerator from configs of the host's own (a key, and a timeout in
\* seconds, each) and NewGitRepository: a short-style pair and a full-style one.
ConcTimeouts == <<1, 2>>
ConcKeys == <<"key-one", "key-two">>
ConcStyles == <<TRUE, FALSE>>

ConcInit ==
    /\ pc = [i \in Insts |-> "idle"]
    /\ op = [i \in Insts |-> "New"]
    /\ facade = [i \in Insts |->
          <<[generator |->
                 NewCommitMessageGenerator(
                     [DefaultConfig EXCEPT !.APIKey = ConcKeys[i],
                                           !.Timeout = ConcTimeouts[i]],
                     ConcStyles[i], Nil).val[1],
             repo |-> [workingDir |-> ""]]>>]
    /\ calls = [i \in Insts |-> <<>>]
    /\ clock = [i \in Insts |-> 0]
    /\ deadline = [i \in Insts |-> <<>>]
    /\ called = [i \in Insts |-> <<>>]
    /\ expired = [i \in Insts |-> FALSE]
    /\ closes = [i \in Insts |-> 0]
    /\ wrapper = [i \in Insts |-> "none"]
    /\ args = [i \in Insts |-> <<>>]
    /\ diff = [i \in Insts |-> ""]
    /\ gitInfo = [i \in Insts |-> <<>>]
    /\ req = [i \in Insts |-> <<>>]
    /\ ret = [i \in Insts |-> NoRet]

\* Each pair is used for one generation, GetCommitContext then GenerateCommitMessage
\* as in Generate, on a thread of its own; the threads' steps interleave freely.
ConcStep(i) ==
    \/ (op[i] = "New" /\ Generate(i))
    \/ HasStagedChangesReturn(i)
    \/ GetStagedDiffReturn(i)
    \/ GetDetailedCommitHistoryReturn(i)
    \/ GetRecentCommitsReturn(i)
    \/ GenerateContentReturn(i)
    \/ DeadlineExceeded(i)
    \/ Tick(i)

ConcNext == \E i \in Insts : ConcStep(i)

ConcSpec == ConcInit /\ [][ConcNext]_vars

----------------------------------------------------------------------------
\* The package pkg/commitgen: the facade and the generator of the public library,
\* which has the full style only.

\* commitgen.getDefaultSystemPrompt: the system instruction of the package.
commitgen_getDefaultSystemPrompt ==
    "You are a git commit message generator. Analyze the provided git diff and recent git log to create a complete commit message with both subject and body.\n"
    \o "\n"
    \o "Format:\n"
    \o "- Subject line: type(scope): brief description (max 50 chars)\n"
    \o "- Blank line\n"
    \o "- Body: Detailed explanation of WHAT, HOW, and WHY (wrap at 72 chars)\n"
    \o "\n"
    \o "Rules for Subject:\n"
    \o "1. Use Conventional Commits format: type(scope): description\n"
    \o "2. Common types: feat, fix, refactor, chore, docs, style, test, perf, ci, build\n"
    \o "3. Keep under 50 characters\n"
    \o "4. Use imperative mood (e.g., \"add feature\" not \"added feature\")\n"
    \o "\n"
    \o "Rules for Body:\n"
    \o "1. Explain WHAT changed (summary of changes)\n"
    \o "2. Explain HOW it was implemented (approach/method)\n"
    \o "3. Explain WHY it was necessary (motivation/context)\n"
    \o "4. Wrap lines at 72 characters\n"
    \o "5. Use bullet points for multiple changes\n"
    \o "6. Reference issues/tickets if relevant\n"
    \o "\n"
    \o "Example:\n"
    \o "feat(auth): add JWT-based user authentication\n"
    \o "\n"
    \o "- Implement JWT token generation and validation\n"
    \o "- Add middleware for protecting authenticated routes\n"
    \o "- Create user login/logout endpoints with secure session handling\n"
    \o "\n"
    \o "This change enables secure user sessions and replaces the previous\n"
    \o "cookie-based authentication which had security vulnerabilities.\n"
    \o "The new system provides better scalability and follows industry\n"
    \o "best practices for API authentication.\n"
    \o "\n"
    \o "Match the style and tone of recent commits in the git log.\n"
    \o "Output only the commit message, nothing else."

\* commitgen.getDefaultCommitExamples: the example messages of the package.
commitgen_getDefaultCommitExamples ==
    "Example commit messages for reference:\n"
    \o "\n"
    \o "feat(auth): add JWT-based user authentication\n"
    \o "\n"
    \o "- Implement JWT token generation and validation\n"
    \o "- Add middleware for protecting authenticated routes\n"
    \o "- Create secure login/logout endpoints\n"
    \o "\n"
    \o "This enables secure user sessions and improves API security\n"
    \o "by replacing cookie-based auth with industry-standard JWT tokens.\n"
    \o "\n"
    \o "fix(db): resolve connection timeout issues\n"
    \o "\n"
    \o "- Increase connection pool size from 10 to 50\n"
    \o "- Add retry logic for failed connections\n"
    \o "- Implement connection health checks\n"
    \o "\n"
    \o "Fixes frequent timeout errors during peak usage periods\n"
    \o "that were causing 500 errors for users.\n"
    \o "\n"
    \o "refactor(api): simplify error handling across endpoints\n"
    \o "\n"
    \o "- Create centralized error handler middleware\n"
    \o "- Standardize error response format\n"
    \o "- Remove duplicate error handling code\n"
    \o "\n"
    \o "Improves code maintainability and provides consistent\n"
    \o "error messages to frontend clients."

commitgen_DefaultModel == "gemini-2.5-flash-lite-preview-06-17"
commitgen_TimeoutSeconds == 10

\* commitgen.DefaultConfig().
commitgen_DefaultConfig ==
    [Model |-> commitgen_DefaultModel, Timeout |-> commitgen_TimeoutSeconds, APIKey |-> ""]

\* A GenerateFromDiff that takes a blank history for no history and drops it.
commitgen_FromDiffInfoTrimmed(d, history) ==
    [StagedDiff |-> d, RecentCommits |-> TrimSpace(history),
     HasHistory |-> TrimSpace(history) # ""]

\* The GitInfo commitgen.GenerateFromDiff builds for (diff, history).
commitgen_FromDiffInfo(d, history) ==
    [StagedDiff |-> d, RecentCommits |-> history, HasHistory |-> history # ""]

\* commitgen.buildPrompt: the user message for a GitInfo.
commitgen_buildPrompt(info) ==
    IF info.HasHistory /\ info.RecentCommits # ""
    THEN "Recent git log:\n" \o info.RecentCommits \o "\n\nGit diff:\n" \o info.StagedDiff \o "\n"
    ELSE "Recent git log:\n" \o commitgen_getDefaultCommitExamples
         \o "\n\nGit diff:\n" \o info.StagedDiff \o "\n"

\* The request commitgen's GenerateCommitMessage hands to client.Models.GenerateContent.
commitgen_Request(g, info) ==
    [model |-> g.config.Model,
     contents |-> <<commitgen_buildPrompt(info)>>,
     SystemInstruction |-> <<g.systemPrompt>>,
     IncludeThoughts |-> FALSE,
     ThinkingBudget |-> 0]

\* commitgen.NewCommitMessageGenerator(config); clientErr is what genai.NewClient returns.
commitgen_NewCommitMessageGenerator(config, clientErr) ==
    IF config.APIKey = ""
    THEN [val |-> <<>>, err |-> <<"API key is required">>, calls |-> <<>>]
    ELSE LET made == <<[cmd |-> NewClientCmd, out |-> "", err |-> clientErr]>>
         IN  IF clientErr # Nil
             THEN [val |-> <<>>, err |-> Wrap("failed to create AI client", clientErr),
                   calls |-> made]
             ELSE [val |-> <<[client |-> TRUE,
                              config |-> config,
                              systemPrompt |-> commitgen_getDefaultSystemPrompt]>>,
                   err |-> Nil, calls |-> made]

\* commitgen.New(opts) with opts.APIKey = optKey, GOOGLE_API_KEY = envKey and
\* opts.Model = model.
commitgen_NewCommitGen(optKey, envKey, model, clientErr) ==
    LET apiKey == IF optKey # "" THEN optKey ELSE envKey
        config == [commitgen_DefaultConfig EXCEPT !.APIKey = apiKey,
                                                  !.Model = IF model # "" THEN model ELSE @]
        g == commitgen_NewCommitMessageGenerator(config, clientErr)
    IN  IF apiKey = ""
        THEN [val |-> <<>>, calls |-> <<>>,
              err |-> <<"API key not provided in options or GOOGLE_API_KEY environment variable">>]
        ELSE IF g.err # Nil
        THEN [val |-> <<>>, calls |-> g.calls,
              err |-> Wrap("failed to create generator", g.err)]
        ELSE [val |-> <<[generator |-> g.val[1], repo |-> [workingDir |-> ""]]>>,
              calls |-> g.calls, err |-> Nil]

\* commitgen.New(opts), called by the host: args keeps the options and the
\* environment's key.
commitgen_New(i) ==
    /\ pc[i] = "unborn"
    /\ \E optKey \in OptKeys, envKey \in EnvKeys, model \in OptModels,
          clientErr \in ClientErrs :
        LET r == commitgen_NewCommitGen(optKey, envKey, model, clientErr)
        IN  /\ pc' = [pc EXCEPT ![i] = IF r.err # Nil THEN "failed" ELSE "idle"]
            /\ ret' = [ret EXCEPT ![i] = Ret("", r.err)]
            /\ facade' = [facade EXCEPT ![i] = r.val]
            /\ calls' = [calls EXCEPT ![i] = r.calls]
            /\ args' = [args EXCEPT ![i] = <<optKey, envKey, model>>]
    /\ op' = [op EXCEPT ![i] = "New"]
    /\ UNCHANGED <<clock, deadline, called, expired, closes, wrapper, diff, gitInfo, req>>

\* commitgen's GenerateCommitMessage(info), called at time now, up to its blocking
\* endpoint call.
commitgen_GenerateCommitMessage(i, info, cs, now) ==
    LET g == facade[i][1].generator
    IN  /\ deadline' = [deadline EXCEPT ![i] = <<now + g.config.Timeout>>]
        /\ called' = [called EXCEPT ![i] = <<now>>]
        /\ gitInfo' = [gitInfo EXCEPT ![i] = <<info>>]
        /\ req' = [req EXCEPT ![i] = <<commitgen_Request(g, info)>>]
        /\ calls' = [calls EXCEPT ![i] = Append(cs, [cmd |-> RemoteCmd, out |-> "", err |-> Pending])]
        /\ pc' = [pc EXCEPT ![i] = "GenerateContent"]

\* commitgen's GenerateFromDiff(diff, history).
commitgen_GenerateFromDiff(i) ==
    /\ \E d \in GivenDiffs, history \in GivenHistories :
        /\ Enter(i, "GenerateFromDiff", <<d, history>>)
        /\ commitgen_GenerateCommitMessage(i, commitgen_FromDiffInfo(d, history), <<>>, 0)
    /\ UNCHANGED <<facade, expired, closes, wrapper>>

\* What commitgen's GenerateCommitMessage returns for the outcome o of the endpoint call.
commitgen_GenerateResult(o) ==
    IF o.err # Nil
    THEN [val |-> "", err |-> Wrap("failed to generate commit message", o.err)]
    ELSE [val |-> o.out, err |-> Nil]

\* The endpoint answers before the deadline, with a text or with an error.
commitgen_GenerateContentReturn(i) ==
    /\ pc[i] = "GenerateContent"
    /\ clock[i] < deadline[i][1]
    /\ \E o \in {[out |-> t, err |-> Nil] : t \in ReplyTexts}
                \cup {[out |-> "", err |-> <<c>>] : c \in CallCauses} :
        /\ Return(i, commitgen_GenerateResult(o))
        /\ calls' = [calls EXCEPT ![i] = Complete(@, o)]
    /\ UNCHANGED <<op, facade, wrapper, expired, clock, deadline, called, args, diff, gitInfo, req>>

\* The deadline of the call's context passes with no answer.
commitgen_DeadlineExceeded(i) ==
    /\ pc[i] = "GenerateContent"
    /\ clock[i] >= deadline[i][1]
    /\ LET o == [out |-> "", err |-> <<DeadlineCause>>]
       IN  /\ Return(i, commitgen_GenerateResult(o))
           /\ calls' = [calls EXCEPT ![i] = Complete(@, o)]
    /\ expired' = [expired EXCEPT ![i] = TRUE]
    /\ UNCHANGED <<op, facade, wrapper, clock, deadline, called, args, diff, gitInfo, req>>

commitgen_Step(i) ==
    \/ commitgen_New(i)
    \/ commitgen_GenerateFromDiff(i)
    \/ commitgen_GenerateContentReturn(i)
    \/ commitgen_DeadlineExceeded(i)
    \/ Tick(i)

\* One facade instance of pkg/commitgen in use.
commitgen_Next == commitgen_Step(1)

commitgen_Spec == Init /\ [][commitgen_Next]_vars

----------------------------------------------------------------------------
\* The error taxonomy, read off the messages of the code.

\* NoStagedChanges: GetCommitContext's "no staged changes found".
IsNoStagedChanges(e) == e = <<"no staged changes found">>

\* IOFailure of the staged-diff stage: "failed to get staged diff" around a subprocess error.
IsIOFailure(e) ==
    /\ e # Nil
    /\ Cause(e) \in ExecCauses
    /\ \E k \in 1..Len(e) : e[k] = "failed to get staged diff"

\* EndpointCallFailure: GenerateCommitMessage's "failed to generate commit message".
IsEndpointCallFailure(e) == e # Nil /\ Head(e) = "failed to generate commit message"

----------------------------------------------------------------------------
\* Properties.

\* The operations that run GetCommitContext.
GatherOps == {"Generate", "GetGitInfo"}

\* What an operation returns with an error: "" from Generate, nil from GetGitInfo,
\* false from HasStagedChanges.
Zero(i) == ret[i] = [NoRet EXCEPT !.err = ret[i].err]

\* A history tier succeeded: its query ran and printed more than white space.
TierOk(c) == c.err = Nil /\ TrimSpace(c.out) # ""

\* A history tier failed: its query failed, or printed nothing.
TierFailed(c) == c.err # Pending /\ ~TierOk(c)

\* The GitInfo GetCommitContext has returned in instance i, if it has.
Gathered(i) ==
    IF op[i] = "Generate" THEN gitInfo[i]
    ELSE IF pc[i] = "idle" /\ ret[i].err = Nil THEN ret[i].info
    ELSE <<>>

\* C1: when the staged-changes check answers false (its query ran and printed only
\* white space), GetCommitContext fails with NoStagedChanges, runs no further diff or
\* history query, and Generate returns that failure without invoking the generator.
C1_NoStagedChangesIsTerminal ==
    \A i \in Insts :
        (/\ op[i] \in GatherOps
         /\ Len(calls[i]) >= 1
         /\ calls[i][1].err = Nil
         /\ TrimSpace(calls[i][1].out) = "")
        => /\ pc[i] = "idle"
           /\ Len(calls[i]) = 1
           /\ IsNoStagedChanges(ret[i].err)
           /\ Zero(i)
           /\ gitInfo[i] = <<>>
           /\ req[i] = <<>>

\* Generate has returned NoStagedChanges after a staged-diff query that printed " \n".
C1_Witness ==
    /\ op[1] = "Generate"
    /\ pc[1] = "idle"
    /\ calls[1] = <<[cmd |-> DiffCmd, out |-> " \n", err |-> Nil]>>
    /\ IsNoStagedChanges(ret[1].err)

\* C2: whenever the generator is invoked through Generate or GenerateFromDiff, the
\* GitInfo it receives has a StagedDiff that is non-empty after trimming.
C2_EmptyDiffNeverReachesGeneration ==
    \A i \in Insts :
        (op[i] \in {"Generate", "GenerateFromDiff"} /\ gitInfo[i] # <<>>)
        => TrimSpace(gitInfo[i][1].StagedDiff) # ""

\* C3: once the staged diff is obtained GetCommitContext succeeds whatever the history
\* queries do; the one-line log is queried only after the detailed log failed; the
\* GitInfo carries the output of the first tier that succeeded with HasHistory, and
\* ("", false) exactly when both tiers failed; no history error is returned.
C3_HistoryFallback ==
    \A i \in Insts :
        (op[i] \in GatherOps /\ Len(calls[i]) >= 3)
        => LET cs == calls[i]
               d == cs[2].out
               two == Len(cs) >= 4 /\ cs[4].cmd = OnelineCmd
           IN  /\ cs[2].err = Nil
               /\ cs[3].cmd = LogCmd
               /\ two <=> TierFailed(cs[3])
               /\ TierOk(cs[3]) => Gathered(i) = <<GitInfo(d, cs[3].out, TRUE)>>
               /\ (two /\ TierOk(cs[4])) => Gathered(i) = <<GitInfo(d, cs[4].out, TRUE)>>
               /\ (two /\ TierFailed(cs[4])) => Gathered(i) = <<GitInfo(d, "", FALSE)>>
               /\ Gathered(i) # <<>> =>
                    (~Gathered(i)[1].HasHistory <=> (two /\ TierFailed(cs[3]) /\ TierFailed(cs[4])))
               /\ pc[i] = "idle" =>
                    \/ ret[i].err = Nil
                    \/ op[i] = "Generate" /\ req[i] # <<>> /\ IsEndpointCallFailure(ret[i].err)

\* Generate has gathered a context after the detailed log failed to run and the
\* one-line log printed nothing.
C3_Witness ==
    /\ op[1] = "Generate"
    /\ Len(calls[1]) >= 4
    /\ calls[1][3].err = <<"exit status 128">>
    /\ calls[1][4] = [cmd |-> OnelineCmd, out |-> "\n", err |-> Nil]
    /\ gitInfo[1] = <<GitInfo("+added line", "", FALSE)>>

\* C4: with a non-empty staged diff and both history tiers printing nothing, the
\* gathered GitInfo has HasHistory = false and the prompt Generate sends is the
\* template with the bundled examples in the history slot, followed by the diff.
C4_EmptyHistoryUsesExamples ==
    \A i \in Insts :
        (/\ op[i] = "Generate"
         /\ Len(calls[i]) >= 5
         /\ calls[i][2].out # ""
         /\ calls[i][3].err = Nil /\ TrimSpace(calls[i][3].out) = ""
         /\ calls[i][4].err = Nil /\ TrimSpace(calls[i][4].out) = "")
        => /\ gitInfo[i] # <<>>
           /\ gitInfo[i][1].HasHistory = FALSE
           /\ req[i] # <<>>
           /\ req[i][1].contents =
                <<"Recent git log:\n" \o getDefaultCommitExamples
                  \o "\n\nGit diff:\n" \o calls[i][2].out \o "\n">>

\* Generate has sent a request for the diff "+added line" after both logs came back empty.
C4_Witness ==
    /\ op[1] = "Generate"
    /\ Len(calls[1]) = 5
    /\ calls[1][2].out = "+added line"
    /\ calls[1][3] = [cmd |-> LogCmd, out |-> "", err |-> Nil]
    /\ calls[1][4] = [cmd |-> OnelineCmd, out |-> "\n", err |-> Nil]
    /\ req[1] # <<>>

\* C5: when a staged-diff query of GetCommitContext fails, in the staged-changes check
\* or in the fetch, GetCommitContext fails with an IOFailure whose root cause is the
\* subprocess error; no history query is run, no GitInfo is returned and the
\* generator is not invoked.
C5_DiffFailureIsFatal ==
    \A i \in Insts :
        op[i] \in GatherOps =>
            \A k \in 1..Len(calls[i]) :
                (calls[i][k].cmd = DiffCmd /\ calls[i][k].err \notin {Nil, Pending})
                => /\ pc[i] = "idle"
                   /\ Len(calls[i]) = k
                   /\ IsIOFailure(ret[i].err)
                   /\ Cause(ret[i].err) = calls[i][k].err[1]
                   /\ Zero(i)
                   /\ gitInfo[i] = <<>>
                   /\ req[i] = <<>>

\* Generate has returned after its second staged-diff query exited non-zero.
C5_Witness ==
    /\ op[1] = "Generate"
    /\ pc[1] = "idle"
    /\ Len(calls[1]) = 2
    /\ calls[1][1].out = "+added line"
    /\ calls[1][2].err = <<"exit status 128">>
    /\ ret[1].err = <<"failed to get staged diff", "exit status 128">>

\* The prompt template with history h and diff d in its slots.
Template(h, d) == "Recent git log:\n" \o h \o "\n\nGit diff:\n" \o d \o "\n"

\* The calls of instance i made to the endpoint.
RemoteCalls(i) == {k \in 1..Len(calls[i]) : calls[i][k].cmd = RemoteCmd}

\* C6: the prompt is a function of (diff, history, hasHistory): the template with the
\* history when hasHistory is true and the history is non-empty, and with the bundled
\* examples in every other case; for ("+added line", "abc123 initial commit", true) it is
\* "Recent git log:\nabc123 initial commit\n\nGit diff:\n+added line\n".
C6_PromptAssembly ==
    \A i \in Insts :
        gitInfo[i] # <<>> =>
            LET g == gitInfo[i][1]
                prompt == req[i][1].contents[1]
            IN  /\ op[i] = "GenerateCommitMessage" => g = GitInfo(args[i][1], args[i][2], args[i][3])
                /\ (g.HasHistory /\ g.RecentCommits # "")
                     => prompt = Template(g.RecentCommits, g.StagedDiff)
                /\ (~g.HasHistory \/ g.RecentCommits = "")
                     => prompt = Template(getDefaultCommitExamples, g.StagedDiff)
                /\ (g.StagedDiff = "+added line" /\ g.RecentCommits = "abc123 initial commit"
                    /\ g.HasHistory)
                     => prompt = "Recent git log:\nabc123 initial commit\n\nGit diff:\n+added line\n"

\* The generator was called with ("+added line", "abc123 initial commit", true) and has
\* sent its request.
C6_Witness ==
    /\ op[1] = "GenerateCommitMessage"
    /\ args[1] = <<"+added line", "abc123 initial commit", TRUE>>
    /\ req[1] # <<>>
    /\ req[1][1].contents = <<"Recent git log:\nabc123 initial commit\n\nGit diff:\n+added line\n">>

\* C7: GenerateFromDiff(diff, "") sends the prompt that Generate sends for a gathered
\* context with that diff and HasHistory = false: the template with the bundled
\* examples and the diff.
C7_FromDiffMatchesNoHistory ==
    \A i \in Insts :
        /\ (op[i] = "GenerateFromDiff" /\ args[i][2] = "")
             => /\ req[i] # <<>>
                /\ req[i][1].contents = <<Template(getDefaultCommitExamples, args[i][1])>>
        /\ (op[i] = "Generate" /\ gitInfo[i] # <<>> /\ ~gitInfo[i][1].HasHistory)
             => /\ gitInfo[i][1].StagedDiff = calls[i][2].out
                /\ req[i][1].contents = <<Template(getDefaultCommitExamples, calls[i][2].out)>>

\* GenerateFromDiff("+added line", "") has sent its request.
C7_Witness ==
    /\ op[1] = "GenerateFromDiff"
    /\ args[1] = <<"+added line", "">>
    /\ req[1] # <<>>

\* C8: GenerateFromDiff(diff, history) hands the generator the GitInfo
\* (diff, history, history != ""), runs no subprocess query, and fails only with
\* EndpointCallFailure, never with NoStagedChanges or IOFailure.
C8_FromDiffNoRepositoryIO ==
    \A i \in Insts :
        op[i] = "GenerateFromDiff" =>
            /\ gitInfo[i] = <<GitInfo(args[i][1], args[i][2], args[i][2] # "")>>
            /\ Len(calls[i]) = 1
            /\ calls[i][1].cmd = RemoteCmd
            /\ (pc[i] = "idle" /\ ret[i].err # Nil)
                 => /\ IsEndpointCallFailure(ret[i].err)
                    /\ ~IsNoStagedChanges(ret[i].err)
                    /\ ~IsIOFailure(ret[i].err)

\* GenerateFromDiff("", "\n") has returned an EndpointCallFailure.
C8_Witness ==
    /\ op[1] = "GenerateFromDiff"
    /\ args[1] = <<"", "\n">>
    /\ pc[1] = "idle"
    /\ IsEndpointCallFailure(ret[1].err)

\* C9: an invocation of GenerateCommitMessage makes exactly one endpoint call, with
\* one system instruction and one user message; when the call fails the invocation
\* returns ("", EndpointCallFailure wrapping the cause) and calls no second time.
C9_OneCallNoRetry ==
    \A i \in Insts :
        /\ Cardinality(RemoteCalls(i)) = (IF gitInfo[i] # <<>> THEN 1 ELSE 0)
        /\ gitInfo[i] # <<>> =>
             LET c == calls[i][Len(calls[i])]
             IN  /\ c.cmd = RemoteCmd
                 /\ req[i] # <<>>
                 /\ Len(req[i][1].contents) = 1
                 /\ Len(req[i][1].SystemInstruction) = 1
                 /\ pc[i] = "idle" <=> c.err # Pending
                 /\ c.err \notin {Nil, Pending}
                      => ret[i] = Ret("",
                                   <<"failed to generate commit message", c.err[1]>>)

\* Generate has returned after its one endpoint call was refused.
C9_Witness ==
    /\ op[1] = "Generate"
    /\ pc[1] = "idle"
    /\ Cardinality(RemoteCalls(1)) = 1
    /\ ret[1].err = <<"failed to generate commit message", "dial tcp: connection refused">>

\* C10: an endpoint call that has not completed by its deadline, the configured
\* timeout after GenerateCommitMessage was called, returns as an EndpointCallFailure
\* that wraps the deadline error, and every invocation blocked in the endpoint call
\* eventually returns even when the endpoint never answers.
C10_TimeoutBoundary ==
    /\ [](\A i \in Insts :
            gitInfo[i] # <<>> =>
                /\ deadline[i] # <<>>
                /\ clock[i] <= deadline[i][1]
                /\ op[i] # "Generate" => deadline[i] = <<facade[i][1].generator.config.Timeout>>
                /\ (pc[i] = "idle" /\ clock[i] >= deadline[i][1])
                     => ret[i] = Ret("",
                                  <<"failed to generate commit message", DeadlineCause>>))
    /\ \A i \in Insts : (pc[i] = "GenerateContent") ~> (pc[i] = "idle")

\* GenerateFromDiff has returned the deadline error 10 s after it was called.
C10_Witness ==
    /\ op[1] = "GenerateFromDiff"
    /\ pc[1] = "idle"
    /\ clock[1] = TimeoutSeconds
    /\ IsEndpointCallFailure(ret[1].err)
    /\ Cause(ret[1].err) = DeadlineCause


\* C11: a Generate invocation of the facade blocks its caller for at most the
\* configured timeout, whichever collaborator is slow: the time elapsed since the
\* invocation began, subprocess queries included, never exceeds config.Timeout.
C11_GenerateBoundedByTimeout ==
    \A i \in Insts :
        op[i] = "Generate" => clock[i] <= facade[i][1].generator.config.Timeout

\* MissingCredential: New's own refusal, or NewCommitMessageGenerator's one.
IsMissingCredential(e) ==
    \/ e = <<"API key not provided in options or GOOGLE_API_KEY environment variable">>
    \/ (e # Nil /\ Cause(e) = "API key is required")

\* C14: construction with no credential (none in the options, none in the
\* environment variable) fails with MissingCredential, creates no remote client and
\* returns no facade; a failed construction is never followed by a generation, and
\* every facade that exists holds a credential.
C14_MissingCredentialAtConstruction ==
    \A i \in Insts :
        /\ (op[i] = "New" /\ args[i] # <<>> /\ args[i][1] = "" /\ args[i][2] = "")
              => /\ pc[i] = "failed"
                 /\ IsMissingCredential(ret[i].err)
                 /\ facade[i] = <<>>
                 /\ calls[i] = <<>>
        /\ pc[i] = "failed"
              => /\ op[i] = "New"
                 /\ facade[i] = <<>>
                 /\ gitInfo[i] = <<>>
                 /\ req[i] = <<>>
                 /\ \A k \in 1..Len(calls[i]) : calls[i][k].cmd = NewClientCmd
        /\ facade[i] # <<>> => facade[i][1].generator.config.APIKey # ""

\* A construction was attempted with no credential anywhere, and refused.
C14_Witness ==
    /\ op[1] = "New"
    /\ args[1] # <<>>
    /\ args[1][1] = ""
    /\ args[1][2] = ""
    /\ pc[1] = "failed"
    /\ IsMissingCredential(ret[1].err)

\* C12: Close is idempotent: every Close returns no error, and a Close after the
\* first leaves the facade, its generator and the client as the first left them, so
\* nothing is released a second time.
C12_CloseIdempotent ==
    [][\A i \in Insts :
          (op'[i] = "Close" /\ closes'[i] = closes[i] + 1)
              => /\ ret'[i].err = Nil
                 /\ closes[i] >= 1 => facade'[i] = facade[i]]_vars

\* Close was called twice on one facade, the second time without error.
C12_Witness ==
    /\ op[1] = "Close"
    /\ closes[1] = 2
    /\ ret[1].err = Nil
    /\ facade[1] # <<>>

\* C16: a convenience wrapper calls Close exactly once when construction succeeded,
\* after Generate returned and whatever it returned (a message, NoStagedChanges,
\* IOFailure, EndpointCallFailure), and never when construction failed.
C16_WrappersCloseOnEveryExit ==
    \A i \in Insts :
        wrapper[i] # "none"
            => /\ pc[i] = "done" => (closes[i] = 1 /\ facade[i] # <<>> /\ op[i] = "Generate")
               /\ pc[i] = "failed" => (closes[i] = 0 /\ facade[i] = <<>> /\ op[i] = "New")
               /\ pc[i] \notin {"done", "failed"} => (closes[i] = 0 /\ facade[i] # <<>>)
               /\ pc[i] # "idle"

\* A wrapper returned the endpoint's failure, its facade closed once.
C16_Witness ==
    /\ wrapper[1] = "QuickGenerateShort"
    /\ pc[1] = "done"
    /\ IsEndpointCallFailure(ret[1].err)
    /\ closes[1] = 1

\* C13: the short and the full system instruction differ, and every request a
\* generator sends, the first as the later ones, carries the instruction of the style
\* it was constructed with: the short one for a short generator, the full one else.
C13_StyleNeverCrossApplies ==
    /\ getShortCommitPrompt # getDefaultSystemPrompt
    /\ \A i \in Insts :
          facade[i] # <<>>
              => LET g == facade[i][1].generator
                     own == IF g.isShortCommit THEN getShortCommitPrompt
                                               ELSE getDefaultSystemPrompt
                 IN  /\ g.systemPrompt = own
                     /\ req[i] # <<>> => req[i][1].SystemInstruction = <<own>>

\* A short-style generator, one of whose calls already timed out, sends the short
\* instruction again in a later call.
C13_Witness ==
    /\ facade[1] # <<>>
    /\ facade[1][1].generator.isShortCommit
    /\ expired[1]
    /\ pc[1] = "GenerateContent"
    /\ req[1] # <<>>
    /\ req[1][1].SystemInstruction = <<getShortCommitPrompt>>

\* C15: a returned Generate or GenerateFromDiff gave either (text, no error), the
\* text being exactly what the one endpoint call answered, or ("", error); a
\* non-empty text never comes with an error.
C15_NoPartialResults ==
    \A i \in Insts :
        (pc[i] = "idle" /\ op[i] \in {"Generate", "GenerateFromDiff"})
            => \/ /\ ret[i].err = Nil
                  /\ \E k \in RemoteCalls(i) :
                        /\ k = Len(calls[i])
                        /\ calls[i][k].err = Nil
                        /\ ret[i].val = calls[i][k].out
               \/ /\ ret[i].err # Nil
                  /\ ret[i].val = ""

\* Generate returned the endpoint's text, trailing newline included.
C15_Witness ==
    /\ pc[1] = "idle"
    /\ op[1] = "Generate"
    /\ ret[1] = Ret("feat: add line\n", Nil)

\* Whether the text s has a character that is not white space.
HasInk(s) == \E k \in 1..Len(s) : ~IsSpace(SubSeq(s, k, k))

\* C18: HasStagedChanges runs one staged-diff query; it answers (true, nil) when the
\* output has a non-blank character, (false, nil) when it has none, and (false,
\* IOFailure) when the query could not run or exited non-zero.
C18_HasStagedChanges ==
    \A i \in Insts :
        (pc[i] = "idle" /\ op[i] = "HasStagedChanges")
            => /\ Len(calls[i]) = 1
               /\ calls[i][1].cmd = DiffCmd
               /\ calls[i][1].err = Nil
                     => ret[i] = [NoRet EXCEPT !.flag = HasInk(calls[i][1].out)]
               /\ calls[i][1].err # Nil
                     => /\ ret[i].flag = FALSE
                        /\ IsIOFailure(ret[i].err)
                        /\ Cause(ret[i].err) = Cause(calls[i][1].err)

\* HasStagedChanges answered false for an output of blanks only.
C18_Witness ==
    /\ pc[1] = "idle"
    /\ op[1] = "HasStagedChanges"
    /\ calls[1][1].out = " \n"
    /\ ret[1] = NoRet

\* NoHistory, and IOFailure of a history query.
NoHistory == <<"no git history found">>
IsHistoryIOFailure(e) ==
    /\ e # Nil
    /\ Len(e) = 2
    /\ e[1] \in {"failed to get detailed commit history", "failed to get recent commits"}
    /\ e[2] \in ExecCauses

\* C19: GetDetailedCommitHistory(count) and GetRecentCommits(count) run one `git log`
\* query for count commits and return one of three outcomes: the log text as printed,
\* with no error, when it has a non-blank character; ("", NoHistory) when the query ran
\* and printed blanks or nothing; ("", IOFailure) when it could not run or exited
\* non-zero.  NoHistory is not an IOFailure and no error comes with a text.
C19_HistoryOutcomes ==
    /\ ~IsHistoryIOFailure(NoHistory)
    /\ \A i \in Insts :
          (pc[i] = "idle" /\ op[i] \in {"GetDetailedCommitHistory", "GetRecentCommits"})
              => /\ Len(calls[i]) = 1
                 /\ calls[i][1].cmd =
                        "git log -" \o ToString(args[i][1])
                            \o (IF op[i] = "GetRecentCommits" THEN " --oneline" ELSE "")
                 /\ (calls[i][1].err = Nil /\ HasInk(calls[i][1].out))
                        => ret[i] = Ret(calls[i][1].out, Nil)
                 /\ (calls[i][1].err = Nil /\ ~HasInk(calls[i][1].out))
                        => ret[i] = Ret("", NoHistory)
                 /\ calls[i][1].err # Nil
                        => /\ ret[i].val = ""
                           /\ IsHistoryIOFailure(ret[i].err)
                           /\ ret[i].err[2] = Cause(calls[i][1].err)
                           /\ (ret[i].err[1] = "failed to get recent commits")
                                  <=> (op[i] = "GetRecentCommits")

\* GetDetailedCommitHistory(1) found a log of one blank line and answered NoHistory.
C19_Witness ==
    /\ pc[1] = "idle"
    /\ op[1] = "GetDetailedCommitHistory"
    /\ args[1] = <<1>>
    /\ calls[1][1] = [cmd |-> "git log -1", out |-> "\n", err |-> Nil]
    /\ ret[1] = Ret("", NoHistory)

\* C20: every call of GenerateCommitMessage gets a deadline of its own, config.Timeout
\* after the call began, whatever became of the calls before it; a call returns the
\* deadline's error only when that much time has passed since it began, and
\* construction leaves no deadline behind for the calls to use.
C20_DeadlinePerCall ==
    \A i \in Insts :
        /\ (deadline[i] = <<>>) <=> (called[i] = <<>>)
        /\ called[i] # <<>>
              => deadline[i] = <<called[i][1] + facade[i][1].generator.config.Timeout>>
        /\ op[i] = "New" => deadline[i] = <<>>
        /\ (pc[i] = "idle" /\ called[i] # <<>> /\ ret[i].err # Nil
                /\ Cause(ret[i].err) = DeadlineCause)
              => clock[i] = called[i][1] + facade[i][1].generator.config.Timeout

\* After a call on the generator timed out, a new call has just begun with the whole
\* timeout ahead of it.
C20_Witness ==
    /\ expired[1]
    /\ op[1] = "GenerateFromDiff"
    /\ pc[1] = "GenerateContent"
    /\ clock[1] = 0
    /\ called[1] = <<0>>
    /\ deadline[1] = <<TimeoutSeconds>>

\* All that the model holds of instance i.
View(i) ==
    <<pc[i], op[i], facade[i], calls[i], clock[i], deadline[i], called[i], expired[i],
      closes[i], wrapper[i], args[i], diff[i], gitInfo[i], req[i], ret[i]>>

\* What instance i has at hand is its own: the request is built from its own generator
\* and GitInfo, the deadline from its own call and timeout, the result from its own
\* remote call.
OwnCall(i) ==
    LET g == facade[i][1].generator
    IN  /\ g.systemPrompt = SelectSystemPrompt(ConcStyles[i])
        /\ g.config.APIKey = ConcKeys[i]
        /\ gitInfo[i] # <<>>
              => /\ req[i] = <<Request(g, gitInfo[i][1])>>
                 /\ deadline[i] = <<called[i][1] + ConcTimeouts[i]>>
                 /\ Cardinality(RemoteCalls(i)) = 1
        /\ (pc[i] = "idle" /\ op[i] = "Generate" /\ gitInfo[i] # <<>>)
              => LET c == calls[i][Len(calls[i])]
                 IN  ret[i] = Returned("Generate", GenerateResult([out |-> c.out, err |-> c.err]))

\* C17: two generations running concurrently on independent generator/repository
\* pairs do not touch each other: under every interleaving a step changes the state
\* of one instance only, and each instance's request (prompt and system instruction),
\* deadline and result come from its own generator, its own repository answers and
\* its own remote call.
C17_IndependentInstances ==
    /\ [](\A i \in Insts : OwnCall(i))
    /\ [][\A i, j \in Insts : (i # j /\ View(i)' # View(i)) => View(j)' = View(j)]_vars

\* The first instance has timed out and returned while the second, with another
\* system instruction and its own later deadline, is still blocked in its remote call.
C17_Witness ==
    /\ pc[1] = "idle"
    /\ expired[1]
    /\ Cause(ret[1].err) = DeadlineCause
    /\ pc[2] = "GenerateContent"
    /\ clock[2] >= ConcTimeouts[1]
    /\ ~expired[2]
    /\ req[1][1].SystemInstruction # req[2][1].SystemInstruction
    /\ deadline[1] # deadline[2]

\* What fills the history slot of the prompt for a history h supplied to
\* GenerateFromDiff, and for a log output h read by context gathering.
FromDiffSlot(h) == IF h = "" THEN getDefaultCommitExamples ELSE h
GatherSlot(h) == IF HasInk(h) THEN h ELSE getDefaultCommitExamples

\* C21: GenerateFromDiff puts the bundled examples in the prompt exactly when the
\* supplied history is "": a blank history such as "\n" is marked HasHistory and goes
\* into the prompt as it is, whereas context gathering takes a blank log for no history
\* and uses the examples; the two entry points fill the history slot alike exactly for
\* the histories that are empty or have a non-blank character.
C21_BlankHistoryDiffers ==
    /\ \A h \in GivenHistories \cup LogTexts :
          (FromDiffSlot(h) = GatherSlot(h)) <=> (h = "" \/ HasInk(h))
    /\ \A i \in Insts :
          /\ (op[i] = "GenerateFromDiff" /\ req[i] # <<>>)
                => /\ gitInfo[i][1].HasHistory = (args[i][2] # "")
                   /\ gitInfo[i][1].RecentCommits = args[i][2]
                   /\ req[i][1].contents = <<Template(FromDiffSlot(args[i][2]), args[i][1])>>
          /\ (op[i] = "Generate" /\ req[i] # <<>>)
                => LET c == calls[i][IF calls[i][3].err = Nil /\ HasInk(calls[i][3].out)
                                     THEN 3 ELSE 4]
                   IN  req[i][1].contents =
                           <<Template(IF c.err = Nil THEN GatherSlot(c.out)
                                                     ELSE getDefaultCommitExamples,
                                      calls[i][2].out)>>

\* GenerateFromDiff("+added line", "\n") has sent a prompt whose history is the blank
\* line it was given.
C21_Witness ==
    /\ op[1] = "GenerateFromDiff"
    /\ args[1] = <<"+added line", "\n">>
    /\ gitInfo[1] # <<>>
    /\ gitInfo[1][1].HasHistory
    /\ req[1] # <<>>
    /\ req[1][1].contents = <<"Recent git log:\n\n\n\nGit diff:\n+added line\n">>

\* The generator internal/generator builds in the full style from configuration config.
FullStyleGenerator(config) == NewCommitMessageGenerator(config, FALSE, Nil).val[1]

\* C22: the two library packages agree.  A pkg/commitgen facade is constructed as an
\* internal/generator facade with IsShortCommit = false is from the same options (same
\* default model and 10 s timeout, same configuration, same system instruction, same
\* error), and for every (diff, history) its GenerateFromDiff builds the same GitInfo,
\* sends the same request (model, prompt, system instruction) under the same deadline,
\* makes the one remote call and returns the same result.
C22_PackagesAgree ==
    /\ commitgen_DefaultConfig = DefaultConfig
    /\ commitgen_DefaultConfig.Timeout = TimeoutSeconds
    /\ commitgen_getDefaultSystemPrompt = SelectSystemPrompt(FALSE)
    /\ \A i \in Insts :
          /\ op[i] = "New"
                => LET clientErr == IF calls[i] = <<>> THEN Nil ELSE calls[i][1].err
                       r == NewCommitGen(args[i][1], args[i][2], args[i][3], FALSE, clientErr)
                   IN  /\ ret[i] = Ret("", r.err)
                       /\ calls[i] = r.calls
                       /\ Len(facade[i]) = Len(r.val)
                       /\ facade[i] # <<>>
                             => /\ facade[i][1].generator.config = r.val[1].generator.config
                                /\ facade[i][1].generator.systemPrompt
                                      = r.val[1].generator.systemPrompt
                                /\ facade[i][1].generator.client = r.val[1].generator.client
          /\ op[i] = "GenerateFromDiff"
                => LET g == FullStyleGenerator(facade[i][1].generator.config)
                       info == FromDiffInfo(args[i][1], args[i][2])
                       c == calls[i][Len(calls[i])]
                   IN  /\ gitInfo[i] = <<info>>
                       /\ req[i] = <<Request(g, info)>>
                       /\ deadline[i] = WithTimeout(called[i][1], g.config.Timeout)
                       /\ Len(calls[i]) = 1
                       /\ c.cmd = RemoteCmd
                       /\ pc[i] = "idle"
                             => ret[i] = Returned("GenerateFromDiff",
                                                  GenerateResult([out |-> c.out, err |-> c.err]))

\* A pkg/commitgen facade built with the default model has answered
\* GenerateFromDiff("+added line", "abc123 initial commit") with the endpoint's text.
C22_Witness ==
    /\ op[1] = "GenerateFromDiff"
    /\ args[1] = <<"+added line", "abc123 initial commit">>
    /\ pc[1] = "idle"
    /\ req[1] # <<>>
    /\ req[1][1].model = commitgen_DefaultModel
    /\ req[1][1].contents = <<"Recent git log:\nabc123 initial commit\n\nGit diff:\n+added line\n">>
    /\ req[1][1].SystemInstruction = <<commitgen_getDefaultSystemPrompt>>
    /\ deadline[1] = <<10>>
    /\ ret[1] = Ret("feat: add line\n", Nil)

====
